---------------------------- MODULE Spec2Model ----------------------------
(***************************************************************************)
(* Model of the metadata-extraction core of src/main.py: extract_text,     *)
(* run_regex (with normalize_phone / normalize_date), run_ner and the      *)
(* /process/{id} handler, run by concurrent worker threads.                *)
(*                                                                         *)
(* Python str values are TLA+ strings (Len, \o and SubSeq work on them).   *)
(* Python lists built from a set comprehension (list({...})) are modelled  *)
(* as sets: their order is unspecified in the source.                      *)
(***************************************************************************)
EXTENDS Integers, Sequences, FiniteSets, TLC

(***************************************************************************)
(* Strings                                                                 *)
(***************************************************************************)
\* The value Python's None takes where a str is expected (never a match of
\* any of the three patterns).
PyNone == "<None>"

Digit == {"0", "1", "2", "3", "4", "5", "6", "7", "8", "9"}
Lower == {"a", "b", "c", "d", "e", "f", "g", "h", "i", "j", "k", "l", "m",
          "n", "o", "p", "q", "r", "s", "t", "u", "v", "w", "x", "y", "z"}
Upper == {"A", "B", "C", "D", "E", "F", "G", "H", "I", "J", "K", "L", "M",
          "N", "O", "P", "Q", "R", "S", "T", "U", "V", "W", "X", "Y", "Z"}
Alnum == Lower \cup Upper \cup Digit
\* \w and \s of Python's re, on the ASCII characters the model uses
WordChar  == Alnum \cup {"_"}
SpaceChar == {" ", "\t", "\n", "\r", "\f"}

CharAt(s, i) == SubSeq(s, i, i)

\* sub in s  (sub a single character)
Contains(s, c) == \E i \in 1..Len(s) : CharAt(s, i) = c

\* s.startswith(p), s.endswith(p)
StartsWith(s, p) == Len(p) <= Len(s) /\ SubSeq(s, 1, Len(p)) = p
EndsWith(s, p) == Len(p) <= Len(s) /\ SubSeq(s, Len(s) - Len(p) + 1, Len(s)) = p

\* s.split(c) for a single-character separator c
RECURSIVE SplitFrom(_, _, _, _)
SplitFrom(s, c, start, i) ==
  IF i > Len(s) THEN <<SubSeq(s, start, Len(s))>>
  ELSE IF CharAt(s, i) = c
       THEN <<SubSeq(s, start, i - 1)>> \o SplitFrom(s, c, i + 1, i + 1)
       ELSE SplitFrom(s, c, start, i + 1)

Split(s, c) == SplitFrom(s, c, 1, 1)

\* "\n".join(parts)
RECURSIVE JoinLines(_)
JoinLines(parts) ==
  IF parts = <<>> THEN ""
  ELSE IF Len(parts) = 1 THEN parts[1]
  ELSE parts[1] \o "\n" \o JoinLines(Tail(parts))

\* re.sub(r"\D", "", p): the digits of p, in order
RECURSIVE DigitsOf(_)
DigitsOf(p) ==
  IF Len(p) = 0 THEN ""
  ELSE (IF CharAt(p, 1) \in Digit THEN CharAt(p, 1) ELSE "")
       \o DigitsOf(SubSeq(p, 2, Len(p)))

(***************************************************************************)
(* Regular expressions: a backtracking matcher with the priorities of      *)
(* Python's re (greedy quantifiers, leftmost alternative first).           *)
(* Ends(r, s, i) lists, in the order the matcher tries them, the offsets   *)
(* at which a match of r starting at offset i of s can end.                *)
(***************************************************************************)
Chr(cs)        == [k |-> "chr", cs |-> cs]
Cat(rs)        == [k |-> "cat", rs |-> rs]
Alt(rs)        == [k |-> "alt", rs |-> rs]
Rep(r, lo, hi) == [k |-> "rep", r |-> r, lo |-> lo, hi |-> hi, inf |-> FALSE]
Plus(r)        == [k |-> "rep", r |-> r, lo |-> 1, hi |-> 0, inf |-> TRUE]
Opt(r)         == Rep(r, 0, 1)
WordBoundary   == [k |-> "wb"]

IsWordAt(s, i) == i >= 1 /\ i <= Len(s) /\ CharAt(s, i) \in WordChar

RECURSIVE Ends(_, _, _), EndsFrom(_, _, _), CatEnds(_, _, _, _),
          AltEnds(_, _, _, _), RepEnds(_, _, _, _, _, _), RepFrom(_, _, _, _, _, _)

Ends(r, s, i) ==
  CASE r.k = "chr" -> IF i < Len(s) /\ CharAt(s, i + 1) \in r.cs
                      THEN <<i + 1>> ELSE <<>>
    [] r.k = "wb"  -> IF IsWordAt(s, i) # IsWordAt(s, i + 1) THEN <<i>> ELSE <<>>
    [] r.k = "cat" -> CatEnds(r.rs, 1, s, <<i>>)
    [] r.k = "alt" -> AltEnds(r.rs, 1, s, i)
    [] r.k = "rep" -> RepEnds(r.r, r.lo, r.hi, r.inf, s, i)

EndsFrom(r, s, starts) ==
  IF starts = <<>> THEN <<>>
  ELSE Ends(r, s, Head(starts)) \o EndsFrom(r, s, Tail(starts))

CatEnds(rs, n, s, starts) ==
  IF n > Len(rs) \/ starts = <<>> THEN starts
  ELSE CatEnds(rs, n + 1, s, EndsFrom(rs[n], s, starts))

AltEnds(rs, n, s, i) ==
  IF n > Len(rs) THEN <<>>
  ELSE Ends(rs[n], s, i) \o AltEnds(rs, n + 1, s, i)

\* greedy: one more repetition is tried before stopping
RepEnds(r, lo, hi, inf, s, i) ==
  LET more == IF inf \/ hi > 0
              THEN RepFrom(r, IF lo > 0 THEN lo - 1 ELSE 0,
                           IF inf THEN hi ELSE hi - 1, inf, s, Ends(r, s, i))
              ELSE <<>>
  IN  more \o (IF lo = 0 THEN <<i>> ELSE <<>>)

RepFrom(r, lo, hi, inf, s, starts) ==
  IF starts = <<>> THEN <<>>
  ELSE RepEnds(r, lo, hi, inf, s, Head(starts))
       \o RepFrom(r, lo, hi, inf, s, Tail(starts))

\* pattern.findall(s) for a pattern without capturing groups: the
\* non-overlapping matches, scanning left to right
RECURSIVE FindFrom(_, _, _)
FindFrom(r, s, pos) ==
  IF pos > Len(s) THEN <<>>
  ELSE LET es == Ends(r, s, pos)
       IN  IF es = <<>> THEN FindFrom(r, s, pos + 1)
           ELSE <<SubSeq(s, pos + 1, Head(es))>>
                \o FindFrom(r, s, IF Head(es) > pos THEN Head(es) ELSE pos + 1)

FindAll(r, s) == FindFrom(r, s, 0)

Range(seq) == {seq[n] : n \in 1..Len(seq)}

D == Chr(Digit)

\* [a-zA-Z0-9_.+-]+@[a-zA-Z0-9-]+\.[a-zA-Z0-9-.]+
email_re ==
  Cat(<<Plus(Chr(Alnum \cup {"_", ".", "+", "-"})), Chr({"@"}),
        Plus(Chr(Alnum \cup {"-"})), Chr({"."}),
        Plus(Chr(Alnum \cup {"-", "."}))>>)

\* (?:\+?\d{1,3}[\s-]?)?(?:\(?\d{2,4}\)?[\s-]?)?\d{6,10}
phone_re ==
  Cat(<<Opt(Cat(<<Opt(Chr({"+"})), Rep(D, 1, 3), Opt(Chr(SpaceChar \cup {"-"}))>>)),
        Opt(Cat(<<Opt(Chr({"("})), Rep(D, 2, 4), Opt(Chr({")"})),
                  Opt(Chr(SpaceChar \cup {"-"}))>>)),
        Rep(D, 6, 10)>>)

\* \b(?:\d{4}-\d{2}-\d{2}|\d{2}[-/]\d{2}[-/]\d{4})\b
date_re ==
  Cat(<<WordBoundary,
        Alt(<<Cat(<<Rep(D, 4, 4), Chr({"-"}), Rep(D, 2, 2), Chr({"-"}), Rep(D, 2, 2)>>),
              Cat(<<Rep(D, 2, 2), Chr({"-", "/"}), Rep(D, 2, 2), Chr({"-", "/"}),
                    Rep(D, 4, 4)>>)>>),
        WordBoundary>>)

(***************************************************************************)
(* Normalizers and the pattern recognizer                                  *)
(***************************************************************************)
\* Mutant: reformats whenever there are at least 10 digits
normalize_phone_atleast(p) ==
  IF Len(DigitsOf(p)) >= 10 THEN "+91-" \o DigitsOf(p) ELSE p

normalize_phone(p) ==
  IF Len(DigitsOf(p)) = 10 THEN "+91-" \o DigitsOf(p) ELSE p

\* dd,mm,yy = d.split(sep): a ValueError unless there are exactly three
\* parts, and the except clause returns d
Reorder(d, sep) ==
  LET parts == Split(d, sep)
  IN  IF Len(parts) = 3 THEN parts[3] \o "-" \o parts[2] \o "-" \o parts[1] ELSE d

\* The trailing "return d" of the source is part of the except clause: when
\* neither if applies the function falls off its end and returns None.
normalize_date(d) ==
  IF Contains(d, "/") THEN Reorder(d, "/")
  ELSE IF Contains(d, "-") /\ Len(Split(d, "-")[1]) # 4 THEN Reorder(d, "-")
  ELSE PyNone

run_regex(text) ==
  [emails |-> Range(FindAll(email_re, text)),
   phones |-> {normalize_phone(p) : p \in Range(FindAll(phone_re, text))},
   dates  |-> {normalize_date(d) : d \in Range(FindAll(date_re, text))}]


(***************************************************************************)
(* Program state                                                           *)
(***************************************************************************)
VARIABLES
  pdfplumber, docx, Image, pytesseract, spacy, \* optional modules: TRUE when imported, FALSE when None
  nlp,                \* the global model: NoModel (None), or the call whose load created it
  en_core_web_sm,     \* environment: whether spacy.load("en_core_web_sm") succeeds
                      \* (the model package is installed or not; fixed while the process runs)
  extraction_results, \* rows of the extraction_results table
  th,                 \* per worker thread: position in process() and its locals
  calls,              \* number of process() invocations begun so far
  loadLog,            \* history: the calls that executed spacy.load, in order
  fn                  \* harness applying the pure helpers to drawn inputs

vars == <<pdfplumber, docx, Image, pytesseract, spacy, nlp, en_core_web_sm,
          extraction_results, th, calls, loadLog, fn>>

modules == <<pdfplumber, docx, Image, pytesseract, spacy>>

\* Bounds of the model
MaxCalls == 2
MaxFrags == 2

NoModel == 0
Threads == {1, 2}

(***************************************************************************)
(* Files, uploads, text extraction                                         *)
(***************************************************************************)
\* The stored files. units: the pages of a PDF (PyNone: a page whose
\* extract_text() is None), the paragraphs of a DOCX, the OCR string of an
\* image. An unreadable path has no file behind it.
Files ==
  [p \in {"uploads/pdf/a.pdf", "uploads/docs/b.docx", "uploads/images/c.png",
          "uploads/pdf/gone.pdf", "uploads/docs/gone.docx",
          "uploads/images/gone.jpg", "uploads/images/gone.png"} |->
     CASE p = "uploads/pdf/a.pdf" ->
            [readable |-> TRUE, kind |-> "pdf", units |-> <<"John a@b.co", PyNone>>]
       [] p = "uploads/docs/b.docx" ->
            [readable |-> TRUE, kind |-> "docx",
             units |-> <<"Acme 9876543210", "Pune 25/12/2023">>]
       [] p = "uploads/images/c.png" ->
            [readable |-> TRUE, kind |-> "image", units |-> <<"2023-12-25 Asia">>]
       [] OTHER -> [readable |-> FALSE, kind |-> "none", units |-> <<>>]]

Paths == DOMAIN Files

PDF  == "application/pdf"
DOCX == "application/vnd.openxmlformats-officedocument.wordprocessingml.document"
JPEG == "image/jpeg"
PNG  == "image/png"

ALLOWED_TYPES == {PDF, DOCX, JPEG, PNG}

\* Declared types a caller of extract_text can pass
MediaTypes == ALLOWED_TYPES \cup {"image/gif", "text/plain",
                                  "application/vnd.google-apps.document"}

\* the library opens and parses the file at path, or raises
Opens(path, kind) == Files[path].readable /\ Files[path].kind = kind

RECURSIVE PageTexts(_)
\* [p.extract_text() or "" for p in pdf.pages]
PageTexts(units) ==
  IF units = <<>> THEN <<>>
  ELSE <<IF Head(units) = PyNone THEN "" ELSE Head(units)>> \o PageTexts(Tail(units))

\* Outcomes of extract_text: a returned (text, pages) pair, or an exception
\* from the library call; opened tells whether the file was read.
Extracted(text, pages) == [raised |-> FALSE, opened |-> TRUE, text |-> text, pages |-> pages]
\* return "",0
Nothing == [raised |-> FALSE, opened |-> FALSE, text |-> "", pages |-> 0]
\* Mutant: the library's exception is swallowed and ("", 0) returned
RaisedSwallowed == [raised |-> FALSE, opened |-> TRUE, text |-> "", pages |-> 0]
\* the exception of pdfplumber.open / docx.Document / Image.open propagates
Raised == [raised |-> TRUE, opened |-> TRUE, text |-> PyNone, pages |-> 0]

\* Mutant: the PDF branch does not test that pdfplumber was imported, so the
\* call on None raises
extract_text_unguarded(path, ftype) ==
  IF ftype = "application/pdf"
  THEN IF pdfplumber /\ Opens(path, "pdf")
       THEN Extracted(JoinLines(PageTexts(Files[path].units)), Len(Files[path].units))
       ELSE Raised
  ELSE IF EndsWith(ftype, "document") /\ docx
  THEN IF Opens(path, "docx") THEN Extracted(JoinLines(Files[path].units), 1) ELSE Raised
  ELSE IF StartsWith(ftype, "image") /\ pytesseract /\ Image
  THEN IF Opens(path, "image") THEN Extracted(Files[path].units[1], 1) ELSE Raised
  ELSE Nothing

\* Mutant: a declared type no branch takes is read as plain text
extract_text_fallback(path, ftype) ==
  IF ftype = "application/pdf" /\ pdfplumber
  THEN IF Opens(path, "pdf")
       THEN Extracted(JoinLines(PageTexts(Files[path].units)), Len(Files[path].units))
       ELSE Raised
  ELSE IF EndsWith(ftype, "document") /\ docx
  THEN IF Opens(path, "docx") THEN Extracted(JoinLines(Files[path].units), 1) ELSE Raised
  ELSE IF StartsWith(ftype, "image") /\ pytesseract /\ Image
  THEN IF Opens(path, "image") THEN Extracted(Files[path].units[1], 1) ELSE Raised
  ELSE IF Files[path].readable THEN Extracted(JoinLines(PageTexts(Files[path].units)), 1)
  ELSE Raised

extract_text(path, ftype) ==
  IF ftype = "application/pdf" /\ pdfplumber
  THEN IF Opens(path, "pdf")
       THEN Extracted(JoinLines(PageTexts(Files[path].units)), Len(Files[path].units))
       ELSE Raised
  ELSE IF EndsWith(ftype, "document") /\ docx
  THEN IF Opens(path, "docx") THEN Extracted(JoinLines(Files[path].units), 1) ELSE Raised
  ELSE IF StartsWith(ftype, "image") /\ pytesseract /\ Image
  THEN IF Opens(path, "image") THEN Extracted(Files[path].units[1], 1) ELSE Raised
  ELSE Nothing

(***************************************************************************)
(* Harness for the pure helpers                                            *)
(***************************************************************************)
Fragments == {"2023-12-25", "25/12/2023", "25-12-2023", "25/12-2023", "9876543210",
              "+91-", "(022) ", "12345", "a@b.co", " ", "x", "1"}

\* a dict or row not assigned yet
Unset == <<>>

\* the locals of one worker thread at the start of a call of process()
Locals(pc, call, id) ==
  \* afterFail (history): a load had already failed when this call entered run_ner
  [pc |-> pc, call |-> call, id |-> id, afterFail |-> FALSE, text |-> PyNone,
   pages |-> 0, regex |-> Unset, ner |-> Unset, metadata |-> Unset, result |-> Unset,
   out |-> Unset]

FnIdle == [stage |-> "idle", text |-> "", n |-> 0, arg |-> "", res |-> "", res2 |-> "",
           out |-> <<>>]

ModulesInit ==
  /\ pdfplumber \in BOOLEAN /\ docx \in BOOLEAN
  /\ pytesseract \in BOOLEAN /\ Image = pytesseract
  /\ spacy \in BOOLEAN

PipelineIdle ==
  /\ nlp = NoModel
  /\ extraction_results = {}
  /\ th = [t \in Threads |-> Locals("idle", 0, 0)]
  /\ calls = 0
  /\ loadLog = <<>>

TextInit ==
  /\ pdfplumber = TRUE /\ docx = TRUE /\ pytesseract = TRUE /\ Image = TRUE
  /\ spacy = TRUE /\ en_core_web_sm = TRUE
  /\ PipelineIdle
  /\ fn = [FnIdle EXCEPT !.stage = "build"]

\* the harness leaves the program's own state alone
HarnessOnly ==
  UNCHANGED <<modules, nlp, en_core_web_sm, extraction_results, th, calls, loadLog>>

AppendFragment(f) ==
  /\ fn.stage = "build" /\ fn.n < MaxFrags
  /\ fn' = [fn EXCEPT !.text = fn.text \o f, !.n = fn.n + 1]
  /\ HarnessOnly

CallRunRegex ==
  /\ fn.stage = "build"
  /\ fn' = [fn EXCEPT !.stage = "regex", !.out = run_regex(fn.text)]
  /\ HarnessOnly

\* p ranges over the strings _phone_re matches in the text
CallNormalizePhone(p) ==
  /\ fn.stage = "regex"
  /\ fn' = [fn EXCEPT !.stage = "phone", !.arg = p, !.res = normalize_phone(p)]
  /\ HarnessOnly

CallNormalizePhoneAgain ==
  /\ fn.stage = "phone"
  /\ fn' = [fn EXCEPT !.stage = "phone2", !.res2 = normalize_phone(fn.res)]
  /\ HarnessOnly

\* d ranges over the strings _date_re matches in the text
CallNormalizeDate(d) ==
  /\ fn.stage = "regex"
  /\ fn' = [fn EXCEPT !.stage = "date", !.arg = d, !.res = normalize_date(d)]
  /\ HarnessOnly

TextNext ==
  \/ \E f \in Fragments : AppendFragment(f)
  \/ CallRunRegex
  \/ \E p \in Range(FindAll(phone_re, fn.text)) : CallNormalizePhone(p)
  \/ CallNormalizePhoneAgain
  \/ \E d \in Range(FindAll(date_re, fn.text)) : CallNormalizeDate(d)

SpecText == TextInit /\ [][TextNext]_vars

ExtractInit ==
  /\ ModulesInit /\ en_core_web_sm = TRUE
  /\ PipelineIdle
  /\ fn = [FnIdle EXCEPT !.stage = "start"]

CallExtractText(path, ftype) ==
  /\ fn.stage = "start"
  /\ fn' = [fn EXCEPT !.stage = "extracted", !.arg = <<path, ftype>>,
                      !.out = extract_text(path, ftype)]
  /\ HarnessOnly

ExtractNext == \E path \in Paths, ftype \in MediaTypes : CallExtractText(path, ftype)

SpecExtract == ExtractInit /\ [][ExtractNext]_vars

(***************************************************************************)
(* Entity recognizer and the /process/{id} handler                         *)
(***************************************************************************)
\* rows of the uploads table: id -> (full_path, file_type). upload() admits
\* only the types of ALLOWED_TYPES.
Uploads ==
  <<[full_path |-> "uploads/pdf/a.pdf", file_type |-> PDF],
    [full_path |-> "uploads/docs/b.docx", file_type |-> DOCX],
    [full_path |-> "uploads/images/c.png", file_type |-> PNG],
    [full_path |-> "uploads/pdf/gone.pdf", file_type |-> PDF],
    [full_path |-> "uploads/docs/gone.docx", file_type |-> DOCX],
    [full_path |-> "uploads/images/gone.jpg", file_type |-> JPEG],
    [full_path |-> "uploads/images/gone.png", file_type |-> PNG]>>

UploadIds == DOMAIN Uploads
\* an id with no row in uploads
MissingId == Len(Uploads) + 1

\* doc.ents of nlp(text): what the loaded model finds, as (text, label_) pairs
NlpEnts(text) ==
  CASE text = "John a@b.co\n" ->
         {[text |-> "John", label_ |-> "PERSON"]}
    [] text = "Acme 9876543210\nPune 25/12/2023" ->
         {[text |-> "Acme", label_ |-> "ORG"], [text |-> "Pune", label_ |-> "GPE"],
          [text |-> "25/12/2023", label_ |-> "DATE"]}
    [] text = "2023-12-25 Asia" ->
         {[text |-> "Asia", label_ |-> "LOC"], [text |-> "2023-12-25", label_ |-> "DATE"]}
    [] OTHER -> {}

\* Mutant: the early returns of run_ner give an empty dict
EmptyDict == <<>>

\* {"names":[],"organizations":[],"locations":[]}
EmptyEntities == [names |-> {}, organizations |-> {}, locations |-> {}]

Entities(ents) ==
  [names         |-> {e.text : e \in {x \in ents : x.label_ = "PERSON"}},
   organizations |-> {e.text : e \in {x \in ents : x.label_ = "ORG"}},
   locations     |-> {e.text : e \in {x \in ents : x.label_ \in {"GPE", "LOC"}}}]

\* {**a, **b}
Merge(a, b) ==
  [k \in DOMAIN a \cup DOMAIN b |-> IF k \in DOMAIN b THEN b[k] ELSE a[k]]

\* the texts the stored files can yield, and run_regex on each (evaluated once)
PipelineTexts ==
  {""} \cup {JoinLines(PageTexts(Files[p].units)) : p \in {q \in Paths : Files[q].readable}}

RegexOf == [s \in PipelineTexts |-> run_regex(s)]

Init ==
  /\ ModulesInit
  /\ en_core_web_sm \in BOOLEAN
  /\ PipelineIdle
  /\ fn = FnIdle

Rest == UNCHANGED <<modules, en_core_web_sm, fn>>

\* except Exception as e: db.close(); raise HTTPException(500, ...)
Failed(t, cause) ==
  [th[t] EXCEPT !.pc = "done",
                !.out = [status |-> 500, detail |-> "Processing failed: " \o cause]]

\* db.query(Upload)...first(); 404 when there is no such upload
Begin(t, id) ==
  /\ th[t].pc \in {"idle", "done"}
  /\ calls < MaxCalls
  /\ calls' = calls + 1
  /\ th' = [th EXCEPT ![t] =
       IF id \in UploadIds
       THEN Locals("extract", calls + 1, id)
       ELSE [Locals("done", calls + 1, id) EXCEPT
               !.out = [status |-> 404, detail |-> "File not found"]]]
  /\ UNCHANGED <<nlp, extraction_results, loadLog>> /\ Rest

\* Mutant: text is a module-level buffer that every running call reads
ExtractTextShared(t) ==
  /\ th[t].pc = "extract"
  /\ LET u == Uploads[th[t].id]
         r == extract_text(u.full_path, u.file_type)
     IN  th' = [x \in Threads |->
           IF x = t
           THEN IF r.raised THEN Failed(t, "cannot open " \o u.full_path)
                ELSE [th[t] EXCEPT !.pc = "regex", !.text = r.text, !.pages = r.pages]
           ELSE IF ~r.raised /\ th[x].pc \in {"regex", "ner", "load", "nlp"}
                THEN [th[x] EXCEPT !.text = r.text]
                ELSE th[x]]
  /\ UNCHANGED <<nlp, extraction_results, calls, loadLog>> /\ Rest

\* text,pages=extract_text(u.full_path,u.file_type)
ExtractText(t) ==
  /\ th[t].pc = "extract"
  /\ LET u == Uploads[th[t].id]
         r == extract_text(u.full_path, u.file_type)
     IN  th' = [th EXCEPT ![t] =
           IF r.raised THEN Failed(t, "cannot open " \o u.full_path)
           ELSE [th[t] EXCEPT !.pc = "regex", !.text = r.text, !.pages = r.pages]]
  /\ UNCHANGED <<nlp, extraction_results, calls, loadLog>> /\ Rest

\* regex=run_regex(text)
RunRegex(t) ==
  /\ th[t].pc = "regex"
  /\ th' = [th EXCEPT ![t].pc = "ner", ![t].regex = RegexOf[th[t].text]]
  /\ UNCHANGED <<nlp, extraction_results, calls, loadLog>> /\ Rest

\* the thread's locals once run_ner has returned ner
WithNer(t, ner) == [th[t] EXCEPT !.pc = "store", !.ner = ner]

\* a load that failed earlier (history, read off loadLog)
LoadFailedBefore == \E n \in 1..Len(loadLog) : ~loadLog[n].ok

\* run_ner: if not spacy: return empties; if not nlp: (go and load)
NerEnter(t) ==
  /\ th[t].pc = "ner"
  /\ th' = [th EXCEPT ![t] =
       IF ~spacy THEN [WithNer(t, EmptyEntities) EXCEPT !.afterFail = LoadFailedBefore]
       ELSE [th[t] EXCEPT !.pc = IF nlp = NoModel THEN "load" ELSE "nlp",
                          !.afterFail = LoadFailedBefore]]
  /\ UNCHANGED <<nlp, extraction_results, calls, loadLog>> /\ Rest

\* try: nlp=spacy.load("en_core_web_sm")  except: return empties
NerLoad(t) ==
  /\ th[t].pc = "load"
  /\ loadLog' = Append(loadLog, [call |-> th[t].call, ok |-> en_core_web_sm,
                                 afterFail |-> th[t].afterFail])
  /\ IF en_core_web_sm
     THEN /\ nlp' = th[t].call
          /\ th' = [th EXCEPT ![t].pc = "nlp"]
     ELSE /\ nlp' = nlp
          /\ th' = [th EXCEPT ![t] = WithNer(t, EmptyEntities)]
  /\ UNCHANGED <<extraction_results, calls>> /\ Rest

\* doc=nlp(text) and the three buckets
NerRun(t) ==
  /\ th[t].pc = "nlp"
  /\ nlp # NoModel
  /\ th' = [th EXCEPT ![t] = WithNer(t, Entities(NlpEnts(th[t].text)))]
  /\ UNCHANGED <<nlp, extraction_results, calls, loadLog>> /\ Rest

\* metadata={**regex,**ner}; result=ExtractionResult(...); db.add(result);
\* db.commit(), which stores the row or raises. metadata_json holds the
\* metadata itself rather than its str(); the row's id, created_at and
\* time_taken (wall-clock values) are left out, and call (history) names the
\* invocation that created the row.
Commit(t) ==
  /\ th[t].pc = "store"
  /\ LET metadata == Merge(th[t].regex, th[t].ner)
         result == [upload_id |-> th[t].id, metadata_json |-> metadata,
                    pages |-> th[t].pages, call |-> th[t].call]
     IN  \/ /\ extraction_results' = extraction_results \cup {result}
            /\ th' = [th EXCEPT ![t].pc = "respond", ![t].metadata = metadata,
                                ![t].result = result]
         \/ /\ extraction_results' = extraction_results
            /\ th' = [th EXCEPT ![t] = Failed(t, "commit")]
  /\ UNCHANGED <<nlp, calls, loadLog>> /\ Rest

\* response={...result.pages, result.time_taken}: the commit expired result,
\* so reading its attributes queries the database again, which can raise
Respond(t) ==
  /\ th[t].pc = "respond"
  /\ \/ th' = [th EXCEPT ![t].pc = "done",
                         ![t].out = [status |-> 200, file_id |-> th[t].id,
                                     metadata |-> th[t].metadata,
                                     processing_stats |-> [pages |-> th[t].result.pages]]]
     \/ th' = [th EXCEPT ![t] = Failed(t, "refresh")]
  /\ UNCHANGED <<nlp, extraction_results, calls, loadLog>> /\ Rest

Next ==
  \/ \E t \in Threads, id \in UploadIds \cup {MissingId} : Begin(t, id)
  \/ \E t \in Threads : ExtractText(t)
  \/ \E t \in Threads : RunRegex(t)
  \/ \E t \in Threads : NerEnter(t)
  \/ \E t \in Threads : NerLoad(t)
  \/ \E t \in Threads : NerRun(t)
  \/ \E t \in Threads : Commit(t)
  \/ \E t \in Threads : Respond(t)

Spec == Init /\ [][Next]_vars

(***************************************************************************)
(* Properties                                                              *)
(***************************************************************************)
\* the optional capability the extraction of a declared type needs
Installed(ftype) ==
  CASE ftype = PDF -> pdfplumber
    [] ftype = DOCX -> docx
    [] ftype \in {JPEG, PNG} -> pytesseract /\ Image
    [] OTHER -> FALSE

RegexKeys  == {"emails", "phones", "dates"}
EntityKeys == {"names", "organizations", "locations"}

Returned(t) == th[t].pc = "done" /\ th[t].id \in UploadIds
Succeeded(t) == Returned(t) /\ th[t].out.status = 200
ReportedFailure(t) == Returned(t) /\ th[t].out.status = 500
Unreadable(t) == th[t].id \in UploadIds /\ ~Files[Uploads[th[t].id].full_path].readable

LoadedBy(call) == \E n \in 1..Len(loadLog) : loadLog[n].call = call

\* C1: once a load has failed, no call that enters run_ner afterwards
\* executes spacy.load again: it returns the all-empty result directly.
C1_FailureMemoized == \A n \in 1..Len(loadLog) : ~loadLog[n].afterFail

\* C2: the global model is set by at most one execution of spacy.load.
C2_LoadedAtMostOnce ==
  \A m, n \in 1..Len(loadLog) : loadLog[m].ok /\ loadLog[n].ok => m = n

\* C3: a call that returned success stored exactly the row it reports, and a
\* call that reported a processing failure left no row.
C3_NoPartialCommit ==
  \A t \in Threads :
    /\ Succeeded(t) =>
         /\ {r \in extraction_results : r.call = th[t].call} = {th[t].result}
         /\ th[t].result.metadata_json = th[t].out.metadata
         /\ th[t].result.pages = th[t].out.processing_stats.pages
    /\ ReportedFailure(t) => {r \in extraction_results : r.call = th[t].call} = {}

\* C4 (as claimed): a call for an upload whose path is unreadable never
\* returns success.
C4_UnreadableFails == \A t \in Threads : Unreadable(t) => ~Succeeded(t)

\* C4 (amended): when the capability for the declared type is installed, a
\* call for an upload whose path is unreadable ends at extract_text with a
\* processing failure that carries the cause.
C4_UnreadableFailsWhenInstalled ==
  \A t \in Threads :
    Unreadable(t) /\ Installed(Uploads[th[t].id].file_type) /\ th[t].pc # "extract" =>
      /\ th[t].pc = "done"
      /\ th[t].out = [status |-> 500,
                      detail |-> "Processing failed: cannot open "
                                 \o Uploads[th[t].id].full_path]
      /\ {r \in extraction_results : r.call = th[t].call} = {}

C4_Witness ==
  \E t \in Threads :
    /\ Unreadable(t) /\ Installed(Uploads[th[t].id].file_type)
    /\ ReportedFailure(t) /\ Uploads[th[t].id].file_type = JPEG

\* YYYY-MM-DD
IsIsoDate(d) ==
  /\ Len(d) = 10
  /\ \A i \in 1..10 : IF i \in {5, 8} THEN CharAt(d, i) = "-" ELSE CharAt(d, i) \in Digit

\* C5: normalize_date returns a YYYY-MM-DD string unchanged, and run_regex
\* lists every ISO date matched in the text as that same string.
C5_IsoDateUnchanged ==
  /\ fn.stage = "date" /\ IsIsoDate(fn.arg) => fn.res = fn.arg
  /\ fn.stage = "regex" =>
       \A d \in Range(FindAll(date_re, fn.text)) : IsIsoDate(d) => d \in fn.out.dates

\* C6: normalizing a normalized phone changes nothing; a match with exactly
\* 10 digits becomes +91-<digits>, any other match is returned as it is.
C6_PhoneIdempotent ==
  /\ fn.stage = "phone2" => fn.res2 = fn.res
  /\ fn.stage \in {"phone", "phone2"} =>
       IF Len(DigitsOf(fn.arg)) = 10
       THEN fn.res = "+91-" \o DigitsOf(fn.arg)
       ELSE fn.res = fn.arg

C6_Witness ==
  /\ fn.stage = "phone2" /\ Len(DigitsOf(fn.arg)) = 10
  /\ fn.arg # fn.res /\ fn.res2 = fn.res /\ Len(DigitsOf(fn.res)) = 12

\* C7: the result of run_regex has the three pattern keys, the result of
\* run_ner the three entity keys, and the metadata of every stored row and
\* of every successful response all six.
C7_AllKeysPresent ==
  /\ \A t \in Threads :
       /\ th[t].pc \in {"ner", "load", "nlp", "store", "respond"} =>
            DOMAIN th[t].regex = RegexKeys
       /\ th[t].pc \in {"store", "respond"} => DOMAIN th[t].ner = EntityKeys
       /\ Succeeded(t) => DOMAIN th[t].out.metadata = RegexKeys \cup EntityKeys
  /\ \A r \in extraction_results : DOMAIN r.metadata_json = RegexKeys \cup EntityKeys

C7_Witness ==
  \E t \in Threads :
    /\ Succeeded(t) /\ LoadedBy(th[t].call) /\ nlp = NoModel
    /\ \A k \in RegexKeys \cup EntityKeys : th[t].out.metadata[k] = {}

\* C8: for each of the four accepted types, extract_text without the
\* capability the type needs returns ("", 0) and does not raise; a returned
\* unit count is never negative.
C8_MissingCapabilityIsEmpty ==
  fn.stage = "extracted" =>
    /\ fn.arg[2] \in ALLOWED_TYPES /\ ~Installed(fn.arg[2]) =>
         ~fn.out.raised /\ fn.out.text = "" /\ fn.out.pages = 0
    /\ ~fn.out.raised => fn.out.pages >= 0

C8_Witness ==
  /\ fn.stage = "extracted" /\ fn.arg[2] = PDF /\ Files[fn.arg[1]].readable
  /\ ~pdfplumber /\ docx /\ pytesseract /\ Image
  /\ fn.out = Nothing

\* what one call for upload id returns when it runs alone and nothing fails
SoloText(id) ==
  IF Installed(Uploads[id].file_type)
  THEN JoinLines(PageTexts(Files[Uploads[id].full_path].units))
  ELSE ""

SoloRegex == [s \in PipelineTexts |-> run_regex(s)]

SoloMetadata(id) ==
  Merge(SoloRegex[SoloText(id)],
        IF spacy /\ en_core_web_sm THEN Entities(NlpEnts(SoloText(id))) ELSE EmptyEntities)

SoloPages(id) ==
  IF ~Installed(Uploads[id].file_type) THEN 0
  ELSE IF Uploads[id].file_type = PDF THEN Len(Files[Uploads[id].full_path].units)
  ELSE 1

\* C9: under every interleaving, the metadata and unit count a call returns
\* and stores are those of its own upload, as a solo run computes them.
C9_NoCrossTalk ==
  /\ \A t \in Threads :
       Succeeded(t) =>
         /\ th[t].out.metadata = SoloMetadata(th[t].id)
         /\ th[t].out.processing_stats.pages = SoloPages(th[t].id)
  /\ \A r \in extraction_results :
       /\ r.metadata_json = SoloMetadata(r.upload_id)
       /\ r.pages = SoloPages(r.upload_id)

C9_Witness ==
  /\ Succeeded(1) /\ th[2].pc = "respond"
  /\ th[2].call < th[1].call
  /\ th[1].id # th[2].id
  /\ th[1].out.metadata # th[2].metadata
  /\ th[1].out.metadata.emails # {} /\ th[2].metadata.phones # {}
  /\ th[1].out.processing_stats.pages = 2 /\ th[2].result.pages = 1

\* C10 (as claimed): for a declared type outside the four accepted ones
\* extract_text returns ("", 0) without reading the file.
C10_OtherTypeIsEmpty ==
  fn.stage = "extracted" /\ fn.arg[2] \notin ALLOWED_TYPES => fn.out = Nothing

\* C10 (amended): the branch depends on the declared type alone, and a type
\* that is not application/pdf, does not end in "document" and does not start
\* with "image" gets ("", 0) without the file being read; a type outside the
\* accepted four that ends in "document" or starts with "image" has its file
\* read by the DOCX or OCR branch when that capability is installed.
C10_UnmatchedTypeIsEmpty ==
  fn.stage = "extracted" =>
    LET ftype == fn.arg[2]
    IN  /\ ftype # PDF /\ ~EndsWith(ftype, "document") /\ ~StartsWith(ftype, "image") =>
             fn.out = Nothing
        /\ ftype \notin ALLOWED_TYPES /\ EndsWith(ftype, "document") /\ docx =>
             fn.out.opened
        /\ ftype \notin ALLOWED_TYPES /\ StartsWith(ftype, "image") /\ pytesseract /\ Image =>
             fn.out.opened

C10_Witness ==
  /\ fn.stage = "extracted" /\ fn.arg[2] = "text/plain" /\ Files[fn.arg[1]].readable
  /\ pdfplumber /\ docx /\ pytesseract /\ Image
  /\ fn.out = Nothing

=============================================================================
